---- MODULE Spec2Model ----
(***************************************************************************)
(* Model of lib/messaging/trpc.ts: the tRPC link of a browser extension    *)
(* (extensionLink, the client side) and its handler                        *)
(* (createExtensionHandler, the server side), talking over                 *)
(* chrome.runtime ports.                                                   *)
(*                                                                         *)
(* A port is a pair of FIFO queues (c2s[p], s2c[p]) and membership in      *)
(* "connected".  A client link either uses the port supplied in its        *)
(* options (port 1) or connects a port when a call is issued; every call   *)
(* registers its own messageHandler on its port.  The handler side is the  *)
(* onConnect callback, run once per port: a registry, an async onMessage   *)
(* listener, suspended at "await createContext()" and at                   *)
(* "await callProcedure()", and an onDisconnect listener.                  *)
(*                                                                         *)
(* Also modelled: the WXT adapter (lib/messaging/adapters/wxt.ts:           *)
(* isExtensionEnvironment, getBrowserAPI, wxtLink) and the i18n module     *)
(* (getBrowserLanguage, initI18n, saveLanguagePreference,                  *)
(* listenForLanguageChanges).                                              *)
(***************************************************************************)
EXTENDS Integers, Sequences, FiniteSets, TLC

\* ---------------------------------------------------------------- bounds
MaxCalls == 2      \* calls issued through the link
MaxItems == 2      \* items one router stream emits
MaxVal   == 2      \* payload values are 1..MaxVal
MaxPeer  == 3      \* envelopes an arbitrary peer posts
MaxChanges == 2    \* storage.onChanged events

Values == 1..MaxVal

\* The value JavaScript reads from an absent "data" field.
Undefined == 0

\* op.type with the path called; the router decides by path.
Operations ==
  { [type |-> "query",        path |-> "user.get"],
    [type |-> "mutation",     path |-> "user.set"],
    [type |-> "subscription", path |-> "feed.watch"] }

\* The ports a link can hold: the supplied one, or one per call.
Ports == 1..MaxCalls

VARIABLES
  i18n,           \* page: the i18n module: uiLanguage, the "language" item of
                  \*   storage.sync, initI18n's position and savedLanguage, the
                  \*   listener, the language applied, the changeLanguage calls
  global,         \* client: globalThis.browser and globalThis.chrome
  link,           \* client: how the link was created, the API object
                  \*   getBrowserAPI returned to wxtLink, options.portName
  connects,       \* client: the names given to runtime.connect, in order
  optionsPort,    \* client: options.port is set (port 1)
  ports,          \* number of ports that exist: 1..ports
  ops,            \* client: the calls issued, in order:
                  \*   [type, path, input, messageId, port, threw]
  listeners,      \* client: calls whose messageHandler is registered on port.onMessage
  isDone,         \* client: calls whose observable is done (error or complete ran)
  unsubscribed,   \* client: calls whose teardown has been invoked
  observed,       \* client: per call and in order, what the caller's observer was
                  \*   handed ("next", "error", "complete") and the caller's own "cancel"
  deadline,       \* client: calls whose configured timeout has elapsed
  peerPosts,      \* number of envelopes the arbitrary peer has posted
  connected,      \* the ports that are open
  c2s,            \* per port: envelopes in flight, client to server
  s2c,            \* per port: envelopes in flight, server to client
  reqs,           \* server: onMessage handler invocations past the stop branch
  subscriptions,  \* server: per port, the Map id -> Unsubscribable (a reqs index)
  stops,          \* server: per port, the ids whose subscription.stop was handled
  postFailures    \* server: the ports on which a port.postMessage of the handler threw

vars == << i18n, global, link, connects, optionsPort, ports, ops, listeners, isDone, unsubscribed, observed,
           deadline, peerPosts, connected, c2s, s2c, reqs, subscriptions, stops,
           postFailures >>

clientVars == << i18n, global, link, connects, optionsPort, ops, listeners, isDone, unsubscribed, observed, deadline >>
serverVars == << reqs, subscriptions, stops, postFailures >>

\* ------------------------------------------------------------ browser API
\* A global that is not defined.
NoAPI == [global |-> "none", runtime |-> "absent"]

\* What a defined browser or chrome global holds: no runtime, a runtime
\* without id (a page that is no part of an extension), or a runtime with
\* the extension's id (a non-empty string).
RuntimeKinds == {"absent", "noid", "id"}

Globals(name) == {NoAPI} \cup { [global |-> name, runtime |-> k] : k \in RuntimeKinds }

\* The environments the adapter may run in.
Environments == [browser : Globals("browser"), chrome : Globals("chrome")]

\* An extension page in Chrome: the environment of extensionLink.
ChromeExtension == [browser |-> NoAPI, chrome |-> [global |-> "chrome", runtime |-> "id"]]

\* "g?.runtime?.id" is defined (and then truthy: ids are non-empty).
HasRuntimeId(g) == g # NoAPI /\ g.runtime = "id"

\* isExtensionEnvironment()
isExtensionEnvironment(env) == HasRuntimeId(env.browser) \/ HasRuntimeId(env.chrome)

\* Mutant of DetectedAPI: chrome is preferred whenever it is defined.
DetectedAPIChromeFirst(env) == IF env.chrome # NoAPI THEN env.chrome ELSE env.browser

\* "global.browser?.runtime?.id ? global.browser : global.chrome"
DetectedAPI(env) == IF HasRuntimeId(env.browser) THEN env.browser ELSE env.chrome

\* getBrowserAPI() throws Error("Browser API not available").
getBrowserAPIThrows(env) == DetectedAPI(env) = NoAPI

\* getBrowserAPI() when it returns.
getBrowserAPI(env) == DetectedAPI(env)

\* An absent (or empty) port name.
NoName == ""

\* The port names a caller of wxtLink may give.
PortNames == {NoName, "my-extension"}

\* "options.portName || \"wxt-trpc\""
WxtPortName(portName) == IF portName = NoName THEN "wxt-trpc" ELSE portName

\* No link has been created.
NoLink == [by |-> "none", api |-> NoAPI, portName |-> NoName]

\* ------------------------------------------------------------ transformer
\* A symmetric transformer that is not the identity: serialize boxes the
\* value, deserialize unboxes it; an absent payload stays absent.
NoData == << >>
serialize(x) == << x >>
deserialize(w) == IF w = NoData THEN Undefined ELSE w[1]

\* ------------------------------------------------------------------ port
\* port.postMessage on port p: enqueue on an open port; on a disconnected
\* port the call throws and nothing is sent.
postMessage(qs, p, env) ==
  IF p \in connected THEN [qs EXCEPT ![p] = Append(@, env)] ELSE qs

\* ------------------------------------------------------------- envelopes
HasError(env)  == "error" \in DOMAIN env
HasResult(env) == "result" \in DOMAIN env

\* trpc.id as the handler reads it: undefined when the field is absent.
IdOf(trpc) == IF "id" \in DOMAIN trpc THEN trpc.id ELSE Undefined

\* Mutant of LacksId: the handler does not test the id.
LacksIdNever(trpc) == FALSE

\* "!trpc.id": the envelope has no id.
LacksId(trpc) == IdOf(trpc) = Undefined

RequestEnvelope(id, op, input) ==
  [id |-> id, method |-> op.type,
   params |-> [path |-> op.path, input |-> serialize(input)]]

StopEnvelope(id) == [id |-> id, method |-> "subscription.stop"]

\* Mutant of StartedEnvelope: the envelope carries another id.
StartedEnvelopeOtherId(id) ==
  [id |-> id + 1, result |-> [type |-> "started", data |-> NoData]]

DataEnvelope(id, v)  == [id |-> id, result |-> [type |-> "data", data |-> serialize(v)]]
StartedEnvelope(id)  == [id |-> id, result |-> [type |-> "started", data |-> NoData]]
StoppedEnvelope(id)  == [id |-> id, result |-> [type |-> "stopped", data |-> NoData]]

\* Errors as the router raises them (TRPCError): classification and message.
ServerErrors ==
  { [code |-> "NOT_FOUND",             message |-> "no such user"],
    [code |-> "INTERNAL_SERVER_ERROR", message |-> "boom"] }

\* Mutant of ErrorEnvelope: the error envelope also carries a result.
ErrorEnvelopeWithResult(id, error, path) ==
  [id |-> id,
   result |-> [type |-> "data", data |-> NoData],
   error |-> [code |-> -32603, message |-> error.message,
              data |-> [code |-> error.code, httpStatus |-> 500, path |-> path]]]

\* The error envelope of a failed request (the catch block).
ErrorEnvelope(id, error, path) ==
  [id |-> id,
   error |-> [code |-> -32603, message |-> error.message,
              data |-> [code |-> error.code, httpStatus |-> 500, path |-> path]]]

\* Mutant of StreamErrorEnvelope: the classification is a fixed one instead
\* of the error's own.
StreamErrorEnvelopeFixedCode(id, error) ==
  [id |-> id,
   error |-> [code |-> -32603, message |-> error.message,
              data |-> [code |-> "INTERNAL_SERVER_ERROR", httpStatus |-> 500]]]

\* The error envelope of a stream error (the subscribe error callback).
StreamErrorEnvelope(id, error) ==
  [id |-> id,
   error |-> [code |-> -32603, message |-> error.message,
              data |-> [code |-> error.code, httpStatus |-> 500]]]

\* ----------------------------------------------------------- client link
\* generateId() of core.ts: an id no call of this link holds yet.  Ids are
\* only ever compared for equality, so one fresh id stands for all of them.
generateId ==
  LET unused == { i \in 1..MaxCalls : \A k \in 1..Len(ops) : ops[k].messageId # i }
  IN CHOOSE i \in unused : \A j \in unused : i >= j

\* The client-side state the callbacks of one dispatch act on.
ClientState ==
  [listeners |-> listeners, isDone |-> isDone, unsubscribed |-> unsubscribed,
   observed |-> observed, c2s |-> c2s]

\* Mutant of Teardown: the subscription teardown posts the stop but
\* forgets port.onMessage.removeListener.
TeardownKeepsListener(st, c) ==
  IF ops[c].type = "subscription"
  THEN IF ops[c].port \in connected
       THEN [st EXCEPT !.c2s = postMessage(@, ops[c].port,
                                           StopEnvelope(ops[c].messageId))]
       ELSE st
  ELSE [st EXCEPT !.listeners = @ \ {c}]

\* Mutant of Teardown: the teardown posts subscription.stop for a call of
\* any type.
TeardownStopsAny(st, c) ==
  IF ops[c].port \in connected
  THEN [st EXCEPT !.c2s = postMessage(@, ops[c].port,
                                      StopEnvelope(ops[c].messageId)),
                  !.listeners = @ \ {c}]
  ELSE st

\* Mutant of Teardown: the subscription teardown removes the listener and
\* posts nothing.
TeardownWithoutStop(st, c) == [st EXCEPT !.listeners = @ \ {c}]

\* The teardown the link returns.  For a subscription it posts
\* subscription.stop and then removes the listener; postMessage on a
\* disconnected port throws, so the listener then stays.
Teardown(st, c) ==
  IF ops[c].type = "subscription"
  THEN IF ops[c].port \in connected
       THEN [st EXCEPT !.c2s = postMessage(@, ops[c].port,
                                           StopEnvelope(ops[c].messageId)),
                       !.listeners = @ \ {c}]
       ELSE st
  ELSE [st EXCEPT !.listeners = @ \ {c}]

\* Mutant of Unsubscribe: the teardown is not run.
UnsubscribeSkipsTeardown(st, c) == [st EXCEPT !.unsubscribed = @ \cup {c}]

\* unsubscribe() of the observable: runs the teardown once.
Unsubscribe(st, c) ==
  IF c \in st.unsubscribed
  THEN st
  ELSE Teardown([st EXCEPT !.unsubscribed = @ \cup {c}], c)

\* observer.next of the observable: dropped once the observable is done.
ObserverNext(st, c, e) ==
  IF c \in st.isDone THEN st ELSE [st EXCEPT !.observed[c] = Append(@, e)]

\* observer.error / observer.complete of the observable: dropped once done,
\* otherwise handed to the caller, and the observable unsubscribes itself.
ObserverEnd(st, c, e) ==
  IF c \in st.isDone
  THEN st
  ELSE Unsubscribe([st EXCEPT !.isDone = @ \cup {c},
                              !.observed[c] = Append(@, e)], c)

\* The error the caller sees: TRPCClientError.from(new TRPCError({code:
\* "INTERNAL_SERVER_ERROR", message: response.trpc.error.message})).
ClientError(wire) == [code |-> "INTERNAL_SERVER_ERROR", message |-> wire.message]

\* Mutant of IdMatches: the handler does not test the id.
IdMatchesAny(c, response) == response.id = response.id

\* The id test of messageHandler.
IdMatches(c, response) == response.id = ops[c].messageId

\* Mutant of messageHandler: a query or mutation is not completed after its
\* result was handed over.
messageHandlerNoComplete(st, c, response) ==
  IF ~IdMatches(c, response) THEN st
  ELSE IF HasError(response)
  THEN ObserverEnd(st, c, [ev |-> "error", id |-> response.id,
                           error |-> ClientError(response.error)])
  ELSE IF HasResult(response)
  THEN IF response.result.type = "stopped"
       THEN ObserverEnd(st, c, [ev |-> "complete", id |-> response.id])
       ELSE ObserverNext(st, c,
              [ev |-> "next", id |-> response.id,
               type |-> response.result.type,
               data |-> deserialize(response.result.data)])
  ELSE st

\* Mutant of messageHandler: a subscription is completed too after a result
\* that is not "stopped" was handed over.
messageHandlerCompletesAll(st, c, response) ==
  IF ~IdMatches(c, response) THEN st
  ELSE IF HasError(response)
  THEN ObserverEnd(st, c, [ev |-> "error", id |-> response.id,
                           error |-> ClientError(response.error)])
  ELSE IF HasResult(response)
  THEN IF response.result.type = "stopped"
       THEN ObserverEnd(st, c, [ev |-> "complete", id |-> response.id])
       ELSE ObserverEnd(ObserverNext(st, c,
                          [ev |-> "next", id |-> response.id,
                           type |-> response.result.type,
                           data |-> deserialize(response.result.data)]),
                        c, [ev |-> "complete", id |-> response.id])
  ELSE st

\* messageHandler of call c on one inbound envelope.  In a "next" event,
\* "type" notes which kind of result produced it; the observer is handed
\* only the deserialized data.
messageHandler(st, c, response) ==
  IF ~IdMatches(c, response) THEN st
  ELSE IF HasError(response)
  THEN ObserverEnd(st, c, [ev |-> "error", id |-> response.id,
                           error |-> ClientError(response.error)])
  ELSE IF HasResult(response)
  THEN IF response.result.type = "stopped"
       THEN ObserverEnd(st, c, [ev |-> "complete", id |-> response.id])
       ELSE LET st1 == ObserverNext(st, c,
                         [ev |-> "next", id |-> response.id,
                          type |-> response.result.type,
                          data |-> deserialize(response.result.data)])
            IN IF ops[c].type # "subscription"
               THEN ObserverEnd(st1, c, [ev |-> "complete", id |-> response.id])
               ELSE st1
  ELSE st

Min(S) == CHOOSE x \in S : \A y \in S : x <= y


\* port.onMessage dispatches one envelope to every registered listener, in
\* the order they were added.
RECURSIVE Dispatch(_, _, _)
Dispatch(st, cs, response) ==
  IF cs = {} THEN st
  ELSE LET c == Min(cs)
       IN Dispatch(messageHandler(st, c, response), cs \ {c}, response)

\* The calls whose messageHandler is registered on port p.
ListenersOn(p) == { c \in listeners : ops[c].port = p }

SetClient(st) ==
  /\ listeners' = st.listeners
  /\ isDone' = st.isDone
  /\ unsubscribed' = st.unsubscribed
  /\ observed' = st.observed
  /\ c2s' = st.c2s

\* "options.port || chrome.runtime.connect(options.portOptions)", evaluated
\* when a call is issued: the supplied port, or else a newly connected one.
LinkPort == IF optionsPort THEN 1 ELSE ports + 1

\* Mutant of wxtLink: the port is connected at the first call, not at link
\* creation.
wxtLinkLazy(portName) ==
  /\ link = NoLink
  /\ link' = IF getBrowserAPIThrows(global)
             THEN [by |-> "Error", api |-> NoAPI, portName |-> portName]
             ELSE [by |-> "wxtLink", api |-> getBrowserAPI(global),
                      portName |-> portName]
  /\ UNCHANGED << i18n, global, connects, optionsPort, ports, ops, listeners, isDone,
                  unsubscribed, observed, deadline, peerPosts, connected, c2s,
                  s2c, serverVars >>

\* wxtLink(options): getBrowserAPI() may throw Error("Browser API not
\* available"), and browser.runtime.connect is a TypeError when the
\* detected API has no runtime; otherwise a port is connected unless
\* options.port is set, stored in options.port, and the link is
\* extensionLink(options).
wxtLink(portName) ==
  /\ link = NoLink
  /\ IF getBrowserAPIThrows(global)
     THEN /\ link' = [by |-> "Error", api |-> NoAPI, portName |-> portName]
          /\ UNCHANGED << connects, optionsPort, ports, connected >>
     ELSE IF optionsPort
     THEN /\ link' = [by |-> "wxtLink", api |-> getBrowserAPI(global),
                      portName |-> portName]
          /\ UNCHANGED << connects, optionsPort, ports, connected >>
     ELSE IF getBrowserAPI(global).runtime = "absent"
     THEN /\ link' = [by |-> "TypeError", api |-> getBrowserAPI(global),
                      portName |-> portName]
          /\ UNCHANGED << connects, optionsPort, ports, connected >>
     ELSE /\ link' = [by |-> "wxtLink", api |-> getBrowserAPI(global),
                      portName |-> portName]
          /\ connects' = Append(connects, WxtPortName(portName))
          /\ optionsPort' = TRUE
          /\ ports' = ports + 1
          /\ connected' = connected \cup {ports + 1}
  /\ UNCHANGED << i18n, global, ops, listeners, isDone, unsubscribed, observed,
                  deadline, peerPosts, c2s, s2c, serverVars >>

\* The link's subscribe function: a call is issued.  On a disconnected port
\* postMessage throws after the listener was added ("threw").
Call(op, input) ==
  /\ Len(ops) < MaxCalls
  /\ LET messageId == generateId
         port == LinkPort
         open == IF optionsPort THEN connected ELSE connected \cup {port}
     IN /\ ports' = IF optionsPort THEN ports ELSE port
        /\ connected' = open
        /\ ops' = Append(ops, [type |-> op.type, path |-> op.path,
                               input |-> input, messageId |-> messageId,
                               port |-> port, threw |-> port \notin open])
        /\ c2s' = IF port \in open
                  THEN [c2s EXCEPT ![port] =
                          Append(@, RequestEnvelope(messageId, op, input))]
                  ELSE c2s
  /\ connects' = IF optionsPort THEN connects ELSE Append(connects, NoName)
  /\ listeners' = listeners \cup {Len(ops) + 1}
  /\ observed' = Append(observed, << >>)
  /\ UNCHANGED << i18n, global, link, optionsPort, isDone, unsubscribed, deadline,
                  peerPosts, s2c, serverVars >>

\* Port p delivers the next envelope to the client.
ClientReceive(p) ==
  /\ p \in connected
  /\ s2c[p] # << >>
  /\ s2c' = [s2c EXCEPT ![p] = Tail(@)]
  /\ SetClient(Dispatch(ClientState, ListenersOn(p), Head(s2c[p])))
  /\ UNCHANGED << i18n, global, link, connects, optionsPort, ports, ops, deadline,
                  peerPosts, connected, serverVars >>

\* The caller unsubscribes from (cancels, aborts) call c.
CallerUnsubscribe(c) ==
  /\ c \in 1..Len(ops)
  /\ c \notin unsubscribed
  /\ SetClient(Unsubscribe([ClientState EXCEPT
                              !.observed[c] = Append(@, [ev |-> "cancel",
                                                   id |-> ops[c].messageId])], c))
  /\ UNCHANGED << i18n, global, link, connects, optionsPort, ports, ops, deadline,
                  peerPosts, connected, s2c, serverVars >>

\* The timeout configured for the link elapses for query/mutation c with no
\* response delivered.  The link starts no timer, so nothing else changes.
DeadlineElapses(c) ==
  /\ c \in 1..Len(ops)
  /\ ops[c].type # "subscription"
  /\ c \notin deadline
  /\ c \notin isDone
  /\ c \notin unsubscribed
  /\ deadline' = deadline \cup {c}
  /\ UNCHANGED << i18n, global, link, connects, optionsPort, ports, ops, listeners,
                  isDone, unsubscribed, observed, peerPosts, connected, c2s, s2c,
                  serverVars >>

\* ------------------------------------------------------- arbitrary peers
\* Envelopes any counterpart of a port may post to the client.
PeerEnvelopes ==
  UNION { { DataEnvelope(id, 1), StartedEnvelope(id), StoppedEnvelope(id),
            StreamErrorEnvelope(id, [code |-> "NOT_FOUND", message |-> "boom"]),
            [id |-> id] } : id \in 1..MaxCalls }

\* The counterpart of port p posts an envelope to the client.
PeerPost(p, env) ==
  /\ p \in connected
  /\ peerPosts < MaxPeer
  /\ \A q \in Ports : s2c[q] = << >>
  /\ peerPosts' = peerPosts + 1
  /\ s2c' = [s2c EXCEPT ![p] = Append(@, env)]
  /\ UNCHANGED << clientVars, ports, connected, c2s, serverVars >>

\* Envelopes any client of a port may post to the handler: requests and
\* stops with any id, an envelope that is no request, a request and a stop
\* without id.
ClientPeerEnvelopes ==
  UNION { { RequestEnvelope(id, op, 1) : op \in Operations }
            \cup { StopEnvelope(id), [id |-> id] } : id \in 1..MaxCalls }
    \cup { [method |-> "query", params |-> [path |-> "user.get", input |-> serialize(1)]],
           [method |-> "subscription.stop"] }

\* The envelope makes the onMessage listener start a handler invocation.
StartsInvocation(env) ==
  /\ ~LacksId(env)
  /\ ~("method" \in DOMAIN env /\ env.method = "subscription.stop")

\* The client of port p posts an envelope to the handler; the handler is
\* made to start at most MaxCalls invocations.
ClientPeerPost(p, env) ==
  /\ p \in connected
  /\ peerPosts < MaxPeer
  /\ c2s[p] = << >>
  /\ StartsInvocation(env) => Len(reqs) < MaxCalls
  /\ peerPosts' = peerPosts + 1
  /\ c2s' = [c2s EXCEPT ![p] = Append(@, env)]
  /\ UNCHANGED << clientVars, ports, connected, s2c, serverVars >>

\* ------------------------------------------------------- handler side
\* No error raised (yet) by the procedure or stream of a request.
NoError == [code |-> "", message |-> ""]

\* subscriptions.delete(id)
MapDelete(m, id) == [i \in DOMAIN m \ {id} |-> m[i]]

\* subscriptions.set(id, handle)
MapSet(m, id, r) == (id :> r) @@ m

\* subscription.unsubscribe() on the handle of request r: the router stream
\* is torn down, once.
StreamUnsubscribe(rs, r) == [rs EXCEPT ![r].sunsub = TRUE]

\* The error port.postMessage throws on a disconnected port, as
\* getTRPCErrorFromUnknown wraps it.
PortError ==
  [code |-> "INTERNAL_SERVER_ERROR",
   message |-> "Attempting to use a disconnected port object"]

\* postFailures after the handler has called port.postMessage on port p.
AfterPost(p) == IF p \in connected THEN postFailures ELSE postFailures \cup {p}

\* Mutant of HandleStop: one registry serves every connection, so a stop
\* unsubscribes and removes the id wherever it is registered.
HandleStopAllPorts(p, trpc) ==
  /\ LET id == IdOf(trpc)
         hit == { q \in Ports : id \in DOMAIN subscriptions[q] }
     IN /\ reqs' = [r \in 1..Len(reqs) |->
                      IF \E q \in hit : subscriptions[q][id] = r
                      THEN [reqs[r] EXCEPT !.sunsub = TRUE] ELSE reqs[r]]
        /\ subscriptions' = [q \in Ports |->
                               IF q \in hit THEN MapDelete(subscriptions[q], id)
                               ELSE subscriptions[q]]
        /\ stops' = [stops EXCEPT ![p] = @ \cup {id}]
  /\ UNCHANGED s2c

\* The subscription.stop branch of the onMessage listener of port p.
HandleStop(p, trpc) ==
  /\ IF IdOf(trpc) \in DOMAIN subscriptions[p]
     THEN /\ reqs' = StreamUnsubscribe(reqs, subscriptions[p][IdOf(trpc)])
          /\ subscriptions' = [subscriptions EXCEPT ![p] = MapDelete(@, IdOf(trpc))]
     ELSE UNCHANGED << reqs, subscriptions >>
  /\ stops' = [stops EXCEPT ![p] = @ \cup {IdOf(trpc)}]
  /\ UNCHANGED s2c

\* Any other envelope with an id: the listener runs up to
\* "await createContext()".  "call" is the later test
\* "trpc.method && trpc.params".
HandleRequest(p, trpc) ==
  /\ LET call == "method" \in DOMAIN trpc /\ "params" \in DOMAIN trpc
     IN reqs' = Append(reqs,
                  [port |-> p, id |-> IdOf(trpc), call |-> call,
                   method |-> IF call THEN trpc.method ELSE "",
                   path |-> IF call THEN trpc.params.path ELSE "",
                   input |-> IF call THEN trpc.params.input ELSE NoData,
                   pc |-> "ctx", rinput |-> Undefined, result |-> Undefined,
                   error |-> NoError, onErrorArg |-> NoError,
                   onErrorThrew |-> FALSE,
                   emitted |-> << >>, sdone |-> FALSE, sunsub |-> FALSE])
  /\ UNCHANGED << subscriptions, stops, s2c >>

\* Some invocation of the listener is suspended at one of its awaits.
Awaiting == \E r \in 1..Len(reqs) : reqs[r].pc \in {"ctx", "proc"}

\* Mutant of ServerReceive: the port delivers no envelope while an
\* invocation of the listener is suspended.
ServerReceiveBlocking(p) ==
  /\ ~Awaiting
  /\ p \in connected
  /\ c2s[p] # << >>
  /\ c2s' = [c2s EXCEPT ![p] = Tail(@)]
  /\ LET trpc == Head(c2s[p])
     IN IF LacksId(trpc)
        THEN UNCHANGED << reqs, subscriptions, stops, s2c >>
        ELSE IF "method" \in DOMAIN trpc /\ trpc.method = "subscription.stop"
        THEN HandleStop(p, trpc)
        ELSE HandleRequest(p, trpc)
  /\ UNCHANGED << clientVars, ports, peerPosts, connected, postFailures >>

\* Port p delivers the next envelope to the handler's onMessage listener.
ServerReceive(p) ==
  /\ p \in connected
  /\ c2s[p] # << >>
  /\ c2s' = [c2s EXCEPT ![p] = Tail(@)]
  /\ LET trpc == Head(c2s[p])
     IN IF LacksId(trpc)
        THEN UNCHANGED << reqs, subscriptions, stops, s2c >>
        ELSE IF "method" \in DOMAIN trpc /\ trpc.method = "subscription.stop"
        THEN HandleStop(p, trpc)
        ELSE HandleRequest(p, trpc)
  /\ UNCHANGED << clientVars, ports, peerPosts, connected, postFailures >>

\* The input handed to the router.
RouterInput(wire) == deserialize(wire)

\* createContext() resolves: the listener goes on to callProcedure and
\* awaits it; for an envelope that is no request it ends there.
ContextResolves(r) ==
  /\ r \in 1..Len(reqs)
  /\ reqs[r].pc = "ctx"
  /\ reqs' = IF reqs[r].call
             THEN [reqs EXCEPT ![r].pc = "proc",
                               ![r].rinput = RouterInput(reqs[r].input)]
             ELSE [reqs EXCEPT ![r].pc = "ignored"]
  /\ UNCHANGED << clientVars, ports, peerPosts, connected, c2s, s2c,
                  subscriptions, stops, postFailures >>

\* createContext() rejects: the await is outside the try block, so the
\* listener's promise rejects and nothing is posted.
ContextRejects(r) ==
  /\ r \in 1..Len(reqs)
  /\ reqs[r].pc = "ctx"
  /\ reqs' = [reqs EXCEPT ![r].pc = "failed"]
  /\ UNCHANGED << clientVars, ports, peerPosts, connected, c2s, s2c,
                  subscriptions, stops, postFailures >>

\* Mutant of DataReply: the reply carries the procedure's input instead of
\* its result.
DataReplyEchoesInput(r, v) == DataEnvelope(reqs[r].id, reqs[r].rinput)

\* The reply of a query or mutation (and of any call whose result is no
\* observable).
DataReply(r, v) == DataEnvelope(reqs[r].id, v)

\* callProcedure resolves a value that is not an observable.
ProcedureResolves(r, v) ==
  /\ r \in 1..Len(reqs)
  /\ reqs[r].pc = "proc"
  /\ reqs' = [reqs EXCEPT ![r].pc = "done", ![r].result = v,
                          ![r].onErrorArg = IF reqs[r].port \in connected
                                            THEN NoError ELSE PortError]
  /\ s2c' = postMessage(s2c, reqs[r].port, DataReply(r, v))
  /\ postFailures' = AfterPost(reqs[r].port)
  /\ UNCHANGED << clientVars, ports, peerPosts, connected, c2s,
                  subscriptions, stops >>

\* What the optional onError callback does when the catch block calls it:
\* it returns (or is absent), or it throws.
OnErrorOutcomes == {"returns", "throws"}

\* callProcedure rejects: the catch block calls onError and then posts the
\* error envelope; an onError that throws ends the listener before the post.
ProcedureRejects(r, error, onError) ==
  /\ r \in 1..Len(reqs)
  /\ reqs[r].pc = "proc"
  /\ reqs' = [reqs EXCEPT ![r].pc = "done", ![r].error = error,
                          ![r].onErrorArg = error,
                          ![r].onErrorThrew = (onError = "throws")]
  /\ s2c' = IF onError = "throws"
            THEN s2c
            ELSE postMessage(s2c, reqs[r].port,
                             ErrorEnvelope(reqs[r].id, error, reqs[r].path))
  /\ postFailures' = IF onError = "throws"
                     THEN postFailures ELSE AfterPost(reqs[r].port)
  /\ UNCHANGED << clientVars, ports, peerPosts, connected, c2s,
                  subscriptions, stops >>

\* The k-th item of a router stream: streams emit 1, 2, 3, ...
Item(k) == k

\* What a router stream does while result.subscribe() runs, before it
\* returns: nothing, its first item, completion, or an error.
SyncBehaviours ==
  { [kind |-> "none"], [kind |-> "complete"], [kind |-> "next", data |-> Item(1)] }
    \cup { [kind |-> "error", error |-> e] : e \in ServerErrors }

\* callProcedure resolves an observable for a subscription request: the
\* listener subscribes, stores the handle and posts "started".  On a
\* disconnected port a callback that runs during subscribe throws at
\* postMessage, which takes the listener to the catch block before the
\* handle is stored.
ProcedureReturnsObservable(r, sync) ==
  /\ r \in 1..Len(reqs)
  /\ reqs[r].pc = "proc"
  /\ reqs[r].method = "subscription"
  /\ LET id == reqs[r].id
         p == reqs[r].port
     IN IF p \notin connected /\ sync.kind # "none"
        THEN /\ reqs' = [reqs EXCEPT ![r].pc = "done",
                           ![r].onErrorArg = PortError,
                           ![r].emitted = IF sync.kind = "next"
                                          THEN << sync.data >> ELSE << >>,
                           ![r].sdone = sync.kind \in {"complete", "error"},
                           ![r].error = IF sync.kind = "error"
                                        THEN sync.error ELSE NoError]
             /\ UNCHANGED << subscriptions, s2c >>
        ELSE /\ reqs' = [reqs EXCEPT ![r].pc = "sub",
                           ![r].onErrorArg = IF p \in connected
                                             THEN NoError ELSE PortError,
                           ![r].emitted = IF sync.kind = "next"
                                          THEN << sync.data >> ELSE << >>,
                           ![r].sdone = sync.kind \in {"complete", "error"},
                           ![r].sunsub = sync.kind \in {"complete", "error"},
                           ![r].error = IF sync.kind = "error"
                                        THEN sync.error ELSE NoError]
             /\ subscriptions' =
                  [subscriptions EXCEPT ![p] =
                     MapSet(IF sync.kind = "complete"
                            THEN MapDelete(@, id) ELSE @, id, r)]
             /\ s2c' = postMessage(
                         IF sync.kind = "next"
                           THEN postMessage(s2c, p, DataEnvelope(id, sync.data))
                         ELSE IF sync.kind = "complete"
                           THEN postMessage(s2c, p, StoppedEnvelope(id))
                         ELSE IF sync.kind = "error"
                           THEN postMessage(s2c, p, StreamErrorEnvelope(id, sync.error))
                         ELSE s2c,
                         p, StartedEnvelope(id))
  /\ postFailures' = AfterPost(reqs[r].port)
  /\ UNCHANGED << clientVars, ports, peerPosts, connected, c2s, stops >>

\* The router stream of request r can still call back.
StreamLive(r) ==
  /\ r \in 1..Len(reqs)
  /\ reqs[r].pc = "sub"
  /\ ~reqs[r].sdone
  /\ ~reqs[r].sunsub

\* The stream emits an item: the next callback.
StreamNext(r) ==
  /\ StreamLive(r)
  /\ Len(reqs[r].emitted) < MaxItems
  /\ LET v == Item(Len(reqs[r].emitted) + 1)
     IN /\ reqs' = [reqs EXCEPT ![r].emitted = Append(@, v)]
        /\ s2c' = postMessage(s2c, reqs[r].port, DataEnvelope(reqs[r].id, v))
  /\ postFailures' = AfterPost(reqs[r].port)
  /\ UNCHANGED << clientVars, ports, peerPosts, connected, c2s,
                  subscriptions, stops >>

\* The stream raises an error: the error callback, which posts the error
\* envelope; the observable then tears the stream down.
StreamError(r, error) ==
  /\ StreamLive(r)
  /\ reqs' = [reqs EXCEPT ![r].sdone = TRUE,
                          ![r].sunsub = reqs[r].port \in connected,
                          ![r].error = error]
  /\ s2c' = postMessage(s2c, reqs[r].port, StreamErrorEnvelope(reqs[r].id, error))
  /\ postFailures' = AfterPost(reqs[r].port)
  /\ UNCHANGED << clientVars, ports, peerPosts, connected, c2s,
                  subscriptions, stops >>

\* The stream completes: the complete callback, which posts "stopped" and
\* deletes the registry entry (postMessage throws first on a closed port).
StreamComplete(r) ==
  /\ StreamLive(r)
  /\ reqs' = [reqs EXCEPT ![r].sdone = TRUE,
                          ![r].sunsub = reqs[r].port \in connected]
  /\ s2c' = postMessage(s2c, reqs[r].port, StoppedEnvelope(reqs[r].id))
  /\ postFailures' = AfterPost(reqs[r].port)
  /\ subscriptions' = IF reqs[r].port \in connected
                      THEN [subscriptions EXCEPT ![reqs[r].port] =
                              MapDelete(@, reqs[r].id)]
                      ELSE subscriptions
  /\ UNCHANGED << clientVars, ports, peerPosts, connected, c2s, stops >>

\* "new Map<string, Unsubscribable>()": the registry of a new connection.
NewRegistry == << >>

\* chrome.runtime.onConnect fires: the handler accepts one more connection
\* and registers its listeners on the new port.
Accept ==
  /\ ports < MaxCalls
  /\ ports' = ports + 1
  /\ connected' = connected \cup {ports + 1}
  /\ subscriptions' = [subscriptions EXCEPT ![ports + 1] = NewRegistry]
  /\ UNCHANGED << clientVars, peerPosts, c2s, s2c, reqs, stops, postFailures >>

\* The handles the onDisconnect listener of port p unsubscribes.
DisconnectTargets(p) == { subscriptions[p][i] : i \in DOMAIN subscriptions[p] }

\* Port p closes.  Envelopes still in flight are lost.  The handler's
\* onDisconnect listener unsubscribes every registered handle and clears
\* the registry; the client link registers no onDisconnect listener.
Disconnect(p) ==
  /\ p \in connected
  /\ connected' = connected \ {p}
  /\ c2s' = [c2s EXCEPT ![p] = << >>]
  /\ s2c' = [s2c EXCEPT ![p] = << >>]
  /\ reqs' = [r \in 1..Len(reqs) |->
                IF r \in DisconnectTargets(p)
                THEN [reqs[r] EXCEPT !.sunsub = TRUE] ELSE reqs[r]]
  /\ subscriptions' = [subscriptions EXCEPT ![p] = << >>]
  /\ UNCHANGED << clientVars, ports, peerPosts, stops, postFailures >>

\* ------------------------------------------------------------ i18n module
\* Strings are sequences of characters, so that substring is computed.
Str_en == << "e", "n" >>
Str_ja == << "j", "a" >>

SUPPORTED_LOCALES == { Str_en, Str_ja }

\* Values of any type, as storage and callers hand them over.
UndefinedValue == [type |-> "undefined", str |-> << >>]
StringValue(s) == [type |-> "string", str |-> s]
NumberValue    == [type |-> "number", str |-> << >>]

\* What browser.i18n.getUILanguage() may return: "", "en", "ja", "en-US",
\* "ja-JP", "fr", "fr-FR", "EN", "e".
UILanguages ==
  { << >>, Str_en, Str_ja, << "e", "n", "-", "U", "S" >>,
    << "j", "a", "-", "J", "P" >>, << "f", "r" >>,
    << "f", "r", "-", "F", "R" >>, << "E", "N" >>, << "e" >> }

\* What the "language" item of storage.sync may hold, and what a caller
\* may pass: nothing, a supported locale, another string, a locale with a
\* region, a number.
StoredValues ==
  { UndefinedValue, StringValue(Str_en), StringValue(Str_ja),
    StringValue(<< "f", "r" >>), StringValue(<< "e", "n", "-", "U", "S" >>),
    StringValue(<< >>), NumberValue }

AreaNames == {"sync", "local"}

\* Mutant of isSupportedLocale: any string passes.
isSupportedLocaleAnyString(value) == value.type = "string"

\* isSupportedLocale(value)
isSupportedLocale(value) ==
  value.type = "string" /\ value.str \in SUPPORTED_LOCALES

\* s.substring(0, 2)
Substring02(s) == SubSeq(s, 1, IF Len(s) < 2 THEN Len(s) ELSE 2)

\* getBrowserLanguage(), for what getUILanguage() returns.
getBrowserLanguage(uiLanguage) ==
  LET languageCode == IF uiLanguage # << >> THEN Substring02(uiLanguage) ELSE Str_en
  IN IF isSupportedLocale(StringValue(languageCode)) THEN languageCode ELSE Str_en

\* No language has been applied to i18n yet.
NoLanguage == << >>

\* The module as loaded: initI18n not called, no listener.
I18nStart(uiLanguage, storedLanguage) ==
  [uiLanguage |-> uiLanguage, stored |-> storedLanguage, pc |-> "start",
   savedLanguage |-> UndefinedValue, listening |-> FALSE,
   language |-> NoLanguage, changeLanguage |-> << >>, changes |-> 0]

\* initI18n up to "await browser.storage.sync.get".
initI18nGet ==
  /\ i18n.pc = "start"
  /\ i18n' = [i18n EXCEPT !.pc = "got", !.savedLanguage = i18n.stored]
  /\ UNCHANGED << global, link, connects, optionsPort, ports, ops, listeners,
                  isDone, unsubscribed, observed, deadline, peerPosts,
                  connected, c2s, s2c, serverVars >>

\* initI18n from there: the default language is chosen and i18n.init
\* applies it.
initI18nInit ==
  /\ i18n.pc = "got"
  /\ LET defaultLanguage == IF isSupportedLocale(i18n.savedLanguage)
                            THEN i18n.savedLanguage.str
                            ELSE getBrowserLanguage(i18n.uiLanguage)
     IN i18n' = [i18n EXCEPT !.pc = "initialised", !.language = defaultLanguage]
  /\ UNCHANGED << global, link, connects, optionsPort, ports, ops, listeners,
                  isDone, unsubscribed, observed, deadline, peerPosts,
                  connected, c2s, s2c, serverVars >>

\* listenForLanguageChanges(): the storage.onChanged listener is added.
listenForLanguageChanges ==
  /\ ~i18n.listening
  /\ i18n' = [i18n EXCEPT !.listening = TRUE]
  /\ UNCHANGED << global, link, connects, optionsPort, ports, ops, listeners,
                  isDone, unsubscribed, observed, deadline, peerPosts,
                  connected, c2s, s2c, serverVars >>

\* The storage.onChanged listener on one event.
onChanged(st, areaName, hasLanguage, newValue) ==
  IF st.listening /\ areaName = "sync" /\ hasLanguage /\ isSupportedLocale(newValue)
  THEN [st EXCEPT !.language = newValue.str,
                  !.changeLanguage = Append(@, newValue.str)]
  ELSE st

\* Storage changes (written by any page or by sync): the item is updated
\* and storage.onChanged fires.
StorageChanged(areaName, hasLanguage, newValue) ==
  /\ i18n.changes < MaxChanges
  /\ i18n' = onChanged([i18n EXCEPT
                          !.changes = @ + 1,
                          !.stored = IF areaName = "sync" /\ hasLanguage
                                     THEN newValue ELSE @],
                       areaName, hasLanguage, newValue)
  /\ UNCHANGED << global, link, connects, optionsPort, ports, ops, listeners,
                  isDone, unsubscribed, observed, deadline, peerPosts,
                  connected, c2s, s2c, serverVars >>

\* saveLanguagePreference(language): an unsupported value is refused,
\* otherwise the item is set, which fires storage.onChanged.
saveLanguagePreference(language) ==
  /\ i18n.changes < MaxChanges
  /\ i18n' = IF ~isSupportedLocale(language)
             THEN [i18n EXCEPT !.changes = @ + 1]
             ELSE onChanged([i18n EXCEPT !.changes = @ + 1, !.stored = language],
                            "sync", TRUE, language)
  /\ UNCHANGED << global, link, connects, optionsPort, ports, ops, listeners,
                  isDone, unsubscribed, observed, deadline, peerPosts,
                  connected, c2s, s2c, serverVars >>

\* No call issued, nothing in flight; the supplied port, when there is
\* one, is open and accepted by the handler.
InitPorts(supplied) ==
  /\ connects = << >>
  /\ optionsPort = supplied
  /\ ports = IF supplied THEN 1 ELSE 0
  /\ ops = << >>
  /\ listeners = {}
  /\ isDone = {}
  /\ unsubscribed = {}
  /\ observed = << >>
  /\ deadline = {}
  /\ peerPosts = 0
  /\ connected = IF supplied THEN {1} ELSE {}
  /\ c2s = [p \in Ports |-> << >>]
  /\ s2c = [p \in Ports |-> << >>]
  /\ reqs = << >>
  /\ subscriptions = [p \in Ports |-> << >>]
  /\ stops = [p \in Ports |-> {}]
  /\ postFailures = {}

\* A link created by extensionLink(options) in an extension page.
InitWith(supplied) ==
  /\ i18n = I18nStart(Str_en, UndefinedValue)
  /\ global = ChromeExtension
  /\ link = [by |-> "extensionLink", api |-> NoAPI, portName |-> NoName]
  /\ InitPorts(supplied)

\* Before wxtLink(options) is called, in any environment, with or without
\* options.port.
InitWxt ==
  /\ i18n = I18nStart(Str_en, UndefinedValue)
  /\ global \in Environments
  /\ link = NoLink
  /\ \E supplied \in BOOLEAN : InitPorts(supplied)

\* A link created with options.port.
Init == InitWith(TRUE)

\* A link created with or without options.port.
InitLink == \E supplied \in BOOLEAN : InitWith(supplied)

\* The client link, created with options.port, against an arbitrary
\* counterpart of the port.  No one reads the inputs here, so every call
\* sends the same one.
NextLink ==
  \/ \E op \in Operations : Call(op, 1)
  \/ \E p \in Ports : ClientReceive(p)
  \/ \E c \in 1..MaxCalls : CallerUnsubscribe(c)
  \/ \E c \in 1..MaxCalls : DeadlineElapses(c)
  \/ \E p \in Ports, env \in PeerEnvelopes : PeerPost(p, env)
  \/ \E p \in Ports : Disconnect(p)

SpecLink == Init /\ [][NextLink]_vars

\* The same, for a link created with or without options.port.
SpecConnect == InitLink /\ [][NextLink]_vars

\* A link created by wxtLink, against an arbitrary counterpart of its port.
NextWxt ==
  \/ \E portName \in PortNames : wxtLink(portName)
  \/ link.by = "wxtLink" /\ NextLink

SpecWxt == InitWxt /\ [][NextWxt]_vars

\* An extension page loads the i18n module, for any UI language and any
\* stored "language" item; no link is created.
InitPage ==
  /\ i18n \in { I18nStart(ui, v) : ui \in UILanguages, v \in StoredValues }
  /\ global = ChromeExtension
  /\ link = NoLink
  /\ InitPorts(FALSE)

\* The i18n module against arbitrary writers of storage.
NextI18n ==
  \/ initI18nGet
  \/ initI18nInit
  \/ listenForLanguageChanges
  \/ \E language \in StoredValues : saveLanguagePreference(language)
  \/ \E areaName \in AreaNames, hasLanguage \in BOOLEAN, newValue \in StoredValues :
       StorageChanged(areaName, hasLanguage, newValue)

SpecI18n == InitPage /\ [][NextI18n]_vars

\* The handler against an arbitrary client of one port.
NextHandler ==
  \/ \E p \in Ports, env \in ClientPeerEnvelopes : ClientPeerPost(p, env)
  \/ \E p \in Ports : ServerReceive(p)
  \/ \E r \in 1..MaxCalls : ContextResolves(r)
  \/ \E r \in 1..MaxCalls : ContextRejects(r)
  \/ \E r \in 1..MaxCalls, v \in Values : ProcedureResolves(r, v)
  \/ \E r \in 1..MaxCalls, e \in ServerErrors, onError \in OnErrorOutcomes :
       ProcedureRejects(r, e, onError)
  \/ \E r \in 1..MaxCalls, sync \in SyncBehaviours : ProcedureReturnsObservable(r, sync)
  \/ \E r \in 1..MaxCalls : StreamNext(r)
  \/ \E r \in 1..MaxCalls, e \in ServerErrors : StreamError(r, e)
  \/ \E r \in 1..MaxCalls : StreamComplete(r)
  \/ \E p \in Ports : Disconnect(p)

SpecHandler == Init /\ [][NextHandler]_vars

\* The handler against arbitrary clients of the connections it accepts.
\* No one reads the results and the errors here, so the router resolves one
\* value and fails with one error.
NextConnections ==
  \/ Accept
  \/ \E p \in Ports, env \in ClientPeerEnvelopes : ClientPeerPost(p, env)
  \/ \E p \in Ports : ServerReceive(p)
  \/ \E r \in 1..MaxCalls : ContextResolves(r)
  \/ \E r \in 1..MaxCalls : ContextRejects(r)
  \/ \E r \in 1..MaxCalls : ProcedureResolves(r, 1)
  \/ \E r \in 1..MaxCalls : ProcedureRejects(r, CHOOSE e \in ServerErrors : TRUE, "returns")
  \/ \E r \in 1..MaxCalls, sync \in SyncBehaviours : ProcedureReturnsObservable(r, sync)
  \/ \E r \in 1..MaxCalls : StreamNext(r)
  \/ \E r \in 1..MaxCalls : StreamError(r, CHOOSE e \in ServerErrors : TRUE)
  \/ \E r \in 1..MaxCalls : StreamComplete(r)
  \/ \E p \in Ports : Disconnect(p)

SpecConnections == Init /\ [][NextConnections]_vars

\* The client link and the handler over the supplied port.
Next ==
  \/ \E op \in Operations, input \in Values : Call(op, input)
  \/ \E p \in Ports : ClientReceive(p)
  \/ \E c \in 1..MaxCalls : CallerUnsubscribe(c)
  \/ \E p \in Ports : ServerReceive(p)
  \/ \E r \in 1..MaxCalls : ContextResolves(r)
  \/ \E r \in 1..MaxCalls : ContextRejects(r)
  \/ \E r \in 1..MaxCalls, v \in Values : ProcedureResolves(r, v)
  \/ \E r \in 1..MaxCalls, e \in ServerErrors, onError \in OnErrorOutcomes :
       ProcedureRejects(r, e, onError)
  \/ \E r \in 1..MaxCalls, sync \in SyncBehaviours : ProcedureReturnsObservable(r, sync)
  \/ \E r \in 1..MaxCalls : StreamNext(r)
  \/ \E r \in 1..MaxCalls, e \in ServerErrors : StreamError(r, e)
  \/ \E r \in 1..MaxCalls : StreamComplete(r)
  \/ \E p \in Ports : Disconnect(p)

Spec == Init /\ [][Next]_vars


\* ------------------------------------------------------------ properties
Last(q) == q[Len(q)]


\* What the caller's observer of call c was handed (the caller's own cancel
\* left out).
Delivered(c) == SelectSeq(observed[c], LAMBDA e : e.ev # "cancel")

\* The payloads of the items handed to the caller of call c.
Items(c) ==
  LET nexts == SelectSeq(observed[c], LAMBDA e : e.ev = "next")
  IN [i \in 1..Len(nexts) |-> nexts[i].data]

\* The state of one call.
CallState(c) ==
  << observed[c], c \in listeners, c \in isDone, c \in unsubscribed >>

\* This step is the client receiving an envelope from port p.
IsClientReceive(p) ==
  /\ p \in connected
  /\ p \in connected'
  /\ s2c[p] # << >>
  /\ s2c'[p] = Tail(s2c[p])

\* This step is the handler receiving an envelope from port p.
IsServerReceive(p) ==
  /\ p \in connected
  /\ p \in connected'
  /\ c2s[p] # << >>
  /\ c2s'[p] = Tail(c2s[p])

\* The handler-side requests that carry the id of call c, on its port.
ReqsOf(c) ==
  { r \in 1..Len(reqs) : reqs[r].port = ops[c].port /\ reqs[r].id = ops[c].messageId }

\* The envelope port p delivers next to the client of call c.
Arriving(c) == Head(s2c[ops[c].port])

IsPrefix(p, q) == Len(p) <= Len(q) /\ \A i \in 1..Len(p) : p[i] = q[i]

\* C1. Correlation integrity: whatever envelopes arrive and in whatever
\* order, a call's observer is handed something only while the port
\* delivers an envelope carrying that call's id, and the delivery of an
\* envelope with another id leaves the call exactly as it was.
C1_CorrelationIntegrity ==
  [][\A c \in 1..Len(ops) :
       /\ Delivered(c)' # Delivered(c)
            => /\ IsClientReceive(ops[c].port)
               /\ Arriving(c).id = ops[c].messageId
               /\ \A i \in 1..Len(Delivered(c)') :
                    Delivered(c)'[i].id = ops[c].messageId
       /\ \A p \in Ports :
            (/\ IsClientReceive(p)
             /\ p # ops[c].port \/ Head(s2c[p]).id # ops[c].messageId)
              => CallState(c)' = CallState(c)]_vars

\* C1 witness: two calls share the port and the one issued second has been
\* answered while the first is still waiting.
C1_Witness ==
  /\ Len(ops) = 2
  /\ Delivered(1) = << >>
  /\ 1 \in listeners
  /\ Delivered(2) # << >>
  /\ 2 \in isDone

\* C2. At most one terminal event for a query or mutation: its caller is
\* handed at most one result or error, whatever arrives; the first response
\* ends the call and nothing is handed over after it.
C2_AtMostOneTerminal ==
  \A c \in 1..Len(ops) :
    ops[c].type # "subscription" =>
      /\ Cardinality({ i \in 1..Len(observed[c]) :
                         observed[c][i].ev \in {"next", "error"} }) <= 1
      /\ \A i \in 1..Len(observed[c]) :
           observed[c][i].ev \in {"error", "complete", "cancel"}
             => i = Len(observed[c])
      /\ c \in isDone => c \notin listeners

\* C2 witness: a query has been answered and ended, and another response
\* envelope with the same id is arriving.
C2_Witness ==
  \E c \in 1..Len(ops) :
    /\ ops[c].type = "query"
    /\ Len(observed[c]) = 2
    /\ observed[c][1].ev = "next"
    /\ observed[c][2].ev = "complete"
    /\ s2c[ops[c].port] # << >>
    /\ Arriving(c).id = ops[c].messageId
    /\ HasResult(Arriving(c))

\* C3. Timeout: once the configured timeout of a query or mutation has
\* elapsed with no response, the call has been rejected with a
\* timeout-classified error and the link no longer listens for its id.
C3_TimeoutRejects ==
  \A c \in deadline :
    /\ observed[c] # << >>
    /\ Last(observed[c]).ev = "error"
    /\ Last(observed[c]).error.code = "TIMEOUT"
    /\ c \notin listeners

\* C4. Subscription lifecycle: what the caller of a subscription observes is
\* items followed by at most one terminal event (completion, error, or the
\* caller's own cancel), and nothing follows the terminal event.
C4_SubscriptionLifecycle ==
  \A c \in 1..Len(ops) :
    ops[c].type = "subscription" =>
      \A i \in 1..Len(observed[c]) :
        observed[c][i].ev \in {"error", "complete", "cancel"}
          => i = Len(observed[c])

\* C4 witness: a subscription that was handed an item has been cancelled by
\* its caller, and a data envelope for its id is arriving.
C4_Witness ==
  \E c \in 1..Len(ops) :
    /\ ops[c].type = "subscription"
    /\ Len(observed[c]) >= 2
    /\ observed[c][1].ev = "next"
    /\ Last(observed[c]).ev = "cancel"
    /\ s2c[ops[c].port] # << >>
    /\ Arriving(c).id = ops[c].messageId
    /\ HasResult(Arriving(c))
    /\ Arriving(c).result.type = "data"

\* C5. Disconnection settles every client call: once a port is
\* disconnected, every call issued on it has ended (at the latest with a
\* disconnection error) and none of their listeners remains.
C5_DisconnectSettlesClient ==
  \A c \in 1..Len(ops) :
    (ops[c].port \notin connected /\ ~ops[c].threw) =>
      /\ c \notin listeners
      /\ observed[c] # << >>
      /\ Last(observed[c]).ev \in {"error", "complete", "cancel"}

\* C6. Handler-side disconnect teardown: once the onDisconnect listener has
\* run, the registry is empty and every stream subscribed on the
\* connection has been unsubscribed, in every later state.
C6_ServerDisconnectTeardown ==
  \A p \in 1..ports :
    p \notin connected =>
      /\ DOMAIN subscriptions[p] = {}
      /\ \A r \in 1..Len(reqs) :
           (reqs[r].port = p /\ reqs[r].pc = "sub") => reqs[r].sunsub

\* C7. Error round-trip: an error handed to a caller carries the
\* classification and the message of the error raised on the handler side
\* for that call.
C7_ErrorRoundTrip ==
  \A c \in 1..Len(ops) :
    \A i \in 1..Len(observed[c]) :
      observed[c][i].ev = "error" =>
        \E r \in ReqsOf(c) :
          /\ observed[c][i].error.code = reqs[r].error.code
          /\ observed[c][i].error.message = reqs[r].error.message

\* The stream subscribed for id on port p has already completed or been
\* unsubscribed.
EndedSubscription(p, id) ==
  \E r \in 1..Len(reqs) :
    /\ reqs[r].port = p
    /\ reqs[r].id = id
    /\ reqs[r].pc = "sub"
    /\ reqs[r].error = NoError
    /\ reqs[r].sunsub

\* C8. Idempotent stop: handling subscription.stop never posts a reply and
\* starts no request; for an id that is not registered, or whose
\* subscription already completed or was already stopped, it leaves the
\* registry and every stream as they are; for a registered id it
\* unsubscribes the stream and removes the entry.
C8_IdempotentStop ==
  [][\A p \in Ports :
       (IsServerReceive(p) /\ Head(c2s[p]).method = "subscription.stop") =>
         LET id == Head(c2s[p]).id
         IN /\ s2c' = s2c
            /\ Len(reqs') = Len(reqs)
            /\ (id \notin DOMAIN subscriptions[p] \/ EndedSubscription(p, id))
                 => (subscriptions' = subscriptions /\ reqs' = reqs)
            /\ id \in DOMAIN subscriptions[p]
                 => /\ id \notin DOMAIN subscriptions'[p]
                    /\ reqs'[subscriptions[p][id]].sunsub]_vars

\* C9. Query/mutation round-trip: the router is invoked with the caller's
\* input, and a caller that is handed a result is handed exactly the value
\* the router resolved, once, followed by completion.
C9_QueryRoundTrip ==
  \A c \in 1..Len(ops) :
    ops[c].type # "subscription" =>
      /\ \A r \in ReqsOf(c) :
           reqs[r].pc \in {"proc", "done"} => reqs[r].rinput = ops[c].input
      /\ Delivered(c) # << >> =>
           \E r \in ReqsOf(c) :
             /\ reqs[r].pc = "done"
             /\ \/ /\ reqs[r].error = NoError
                   /\ Delivered(c) =
                        << [ev |-> "next", id |-> ops[c].messageId,
                            type |-> "data", data |-> reqs[r].result],
                           [ev |-> "complete", id |-> ops[c].messageId] >>
                \/ /\ reqs[r].error # NoError
                   /\ Len(Delivered(c)) = 1
                   /\ Delivered(c)[1].ev = "error"

\* C9 witness: two calls with different inputs, whose procedures resolved
\* different values, have both been answered.
C9_Witness ==
  /\ Len(ops) = 2
  /\ ops[1].type = "query"
  /\ ops[2].type = "mutation"
  /\ ops[1].input # ops[2].input
  /\ Items(1) # << >>
  /\ Items(2) # << >>
  /\ Items(1) # Items(2)
  /\ 1 \in isDone
  /\ 2 \in isDone

\* C10. Per-subscription ordering: the items the caller of a subscription
\* has observed are the items its router stream emitted, in the order it
\* emitted them, and completion is observed after all of them.
C10_SubscriptionOrdering ==
  \A c \in 1..Len(ops) :
    ops[c].type = "subscription" =>
      \A r \in ReqsOf(c) :
        reqs[r].pc = "sub" =>
        /\ IsPrefix(Items(c), reqs[r].emitted)
        /\ (observed[c] # << >> /\ Last(observed[c]).ev = "complete")
             => Items(c) = reqs[r].emitted

\* The registry of request r's port holds the handle of r's stream.
Registered(r) ==
  /\ reqs[r].id \in DOMAIN subscriptions[reqs[r].port]
  /\ subscriptions[reqs[r].port][reqs[r].id] = r

\* The stream of request r completed and its "stopped" result was posted
\* (the port was open then, and is still open).
CompletedAndStopped(r) ==
  /\ reqs[r].pc = "sub"
  /\ reqs[r].sdone
  /\ reqs[r].error = NoError
  /\ reqs[r].port \in connected

\* C11. Registry cleanup on natural completion: once a stream has completed
\* and the handler has posted its "stopped" result, the registry of the
\* connection holds no entry for that subscription, also when the stream
\* completed during the subscribe call.
C11_RegistryCleanupOnCompletion ==
  \A r \in 1..Len(reqs) : CompletedAndStopped(r) => ~Registered(r)

\* The envelopes the handler has posted on port p and the client has not
\* taken yet, as a set.
Posted(p) == { s2c[p][i] : i \in 1..Len(s2c[p]) }

\* C12. Every response envelope the handler sends has exactly one of
\* "result" and "error": never both, never neither.
C12_ExactlyOneOfResultOrError ==
  \A p \in Ports : \A env \in Posted(p) : HasResult(env) # HasError(env)

\* C12 witness: a data, a started, a stopped and an error envelope have
\* been sent on one port.
C12_Witness ==
  \E p \in Ports :
    /\ \E env \in Posted(p) : HasError(env)
    /\ \A t \in {"data", "started", "stopped"} :
         \E env \in Posted(p) : HasResult(env) /\ env.result.type = t

\* C13. Every error envelope the handler sends, for a failed request and
\* for a stream error alike, has code -32603, the message of the error
\* raised for the request with its id, and that error's classification in
\* error.data.code.
C13_ErrorEnvelopeShape ==
  \A p \in Ports : \A env \in Posted(p) :
    HasError(env) =>
      /\ env.error.code = -32603
      /\ \E r \in 1..Len(reqs) :
           /\ reqs[r].port = p
           /\ reqs[r].id = env.id
           /\ reqs[r].error # NoError
           /\ env.error.message = reqs[r].error.message
           /\ env.error.data.code = reqs[r].error.code

\* C13 witness: the error envelope of a failed request and the error
\* envelope of a stream error, with different classifications, have been
\* sent on one port.
C13_Witness ==
  \E p \in Ports : \E e1, e2 \in Posted(p) :
    /\ HasError(e1)
    /\ HasError(e2)
    /\ "path" \in DOMAIN e1.error.data
    /\ "path" \notin DOMAIN e2.error.data
    /\ e1.error.data.code # e2.error.data.code

\* Envelope env is the outcome of request r: its reply, its stream's item,
\* start, completion or error.
OutcomeOf(env, r) ==
  /\ reqs[r].call
  /\ reqs[r].pc \in {"done", "sub"}
  /\ IF HasError(env)
     THEN /\ reqs[r].error # NoError
          /\ env.error.message = reqs[r].error.message
     ELSE IF env.result.type = "data"
     THEN \/ /\ reqs[r].pc = "done"
             /\ reqs[r].error = NoError
             /\ env.result.data = serialize(reqs[r].result)
          \/ /\ reqs[r].pc = "sub"
             /\ \E k \in 1..Len(reqs[r].emitted) :
                  env.result.data = serialize(reqs[r].emitted[k])
     ELSE IF env.result.type = "started"
     THEN reqs[r].pc = "sub"
     ELSE /\ reqs[r].pc = "sub"
          /\ reqs[r].sdone
          /\ reqs[r].error = NoError

\* C14. Every envelope the handler sends on a connection carries the id of
\* a request received before on that connection and is the outcome of
\* that request; no envelope carries an id the handler did not receive.
C14_RepliesCarryReceivedIds ==
  \A p \in Ports : \A env \in Posted(p) :
    \E r \in 1..Len(reqs) :
      /\ reqs[r].port = p
      /\ reqs[r].id = env.id
      /\ OutcomeOf(env, r)

\* C14 witness: two requests with different ids were received on one port
\* and an envelope has been sent for each of them.
C14_Witness ==
  \E p \in Ports : \E e1, e2 \in Posted(p) :
    /\ e1.id # e2.id
    /\ Len(reqs) = 2
    /\ \A r \in 1..2 : reqs[r].port = p

\* C15. A context-factory failure becomes an error reply: when
\* createContext throws or rejects for a query, mutation or subscription
\* request on an open port, the handler has posted an error envelope with
\* the request's id, as it does when the procedure fails.
C15_ContextFailureReplies ==
  \A r \in 1..Len(reqs) :
    (reqs[r].pc = "failed" /\ reqs[r].call /\ reqs[r].port \in connected) =>
      \E env \in Posted(reqs[r].port) : HasError(env) /\ env.id = reqs[r].id

\* C16. A failing error observer does not affect the reply: when onError
\* throws while the handler handles a failed request on an open port, the
\* error envelope of that request has been posted, the same one as when
\* onError returns or is absent.
C16_OnErrorFailureKeepsReply ==
  \A r \in 1..Len(reqs) :
    (reqs[r].pc = "done" /\ reqs[r].onErrorThrew /\ reqs[r].port \in connected) =>
      ErrorEnvelope(reqs[r].id, reqs[r].error, reqs[r].path) \in Posted(reqs[r].port)

\* The caller of call c has cancelled it.
Cancelled(c) == observed[c] # << >> /\ Last(observed[c]).ev = "cancel"

\* The subscription.stop envelopes for call c in flight on its port.
StopsInFlight(c) ==
  Cardinality({ i \in 1..Len(c2s[ops[c].port]) :
                  c2s[ops[c].port][i] = StopEnvelope(ops[c].messageId) })

\* C17. Client-side subscription cancel: when the caller cancels an open
\* subscription (on an open port), that step posts one subscription.stop
\* envelope with the subscription's id, takes nothing from the port and
\* removes the listener; from then on the caller is handed nothing and no
\* further stop is posted, whatever arrives for that id.
C17_ClientCancel ==
  [][\A c \in 1..Len(ops) :
       ops[c].type = "subscription" =>
         /\ (~Cancelled(c) /\ Cancelled(c)' /\ ops[c].port \in connected)
              => /\ c2s'[ops[c].port] =
                      Append(c2s[ops[c].port], StopEnvelope(ops[c].messageId))
                 /\ s2c' = s2c
                 /\ c \notin listeners'
         /\ Cancelled(c)
              => /\ observed'[c] = observed[c]
                 /\ StopsInFlight(c)' <= StopsInFlight(c)]_vars

\* C17 witness: a subscription was cancelled before anything arrived, its
\* stop is in flight behind its request, and a data envelope with its id
\* is arriving.
C17_Witness ==
  \E c \in 1..Len(ops) :
    /\ ops[c].type = "subscription"
    /\ observed[c] = << [ev |-> "cancel", id |-> ops[c].messageId] >>
    /\ c \notin listeners
    /\ StopsInFlight(c) = 1
    /\ Last(c2s[ops[c].port]) = StopEnvelope(ops[c].messageId)
    /\ s2c[ops[c].port] # << >>
    /\ Arriving(c) = DataEnvelope(ops[c].messageId, 1)

\* The envelopes posted on port p in this step.
NewlyPosted(p) ==
  IF Len(s2c'[p]) > Len(s2c[p])
  THEN { s2c'[p][i] : i \in (Len(s2c[p]) + 1)..Len(s2c'[p]) }
  ELSE {}

\* C18. The handler stops emitting once it has processed the stop: after
\* it has handled subscription.stop for id X on a connection, it posts no
\* further envelope for subscription X on that connection and the stream
\* of subscription X is not live, however the stop interleaves with the
\* handling of the subscription request X.
C18_NoEmissionAfterStop ==
  [][\A r \in 1..Len(reqs') :
       (reqs'[r].pc = "sub" /\ reqs'[r].id \in stops[reqs'[r].port]) =>
         /\ ~StreamLive(r)'
         /\ \A env \in NewlyPosted(reqs'[r].port) : env.id # reqs'[r].id]_vars

\* The ports the link has opened with chrome.runtime.connect.
Connects == IF optionsPort THEN 0 ELSE ports

\* C19. One connection per client instance: all calls issued through one
\* link use the same port, whether or not a port was supplied in the
\* options, and the link opens at most one port however many calls it
\* issues.
C19_OneConnectionPerLink ==
  /\ \A c1, c2 \in 1..Len(ops) : ops[c1].port = ops[c2].port
  /\ Connects <= 1

\* The positions, among the envelopes posted on its port, of those that
\* carry the id of request r.
PostedFor(r) ==
  { i \in 1..Len(s2c[reqs[r].port]) : s2c[reqs[r].port][i].id = reqs[r].id }

\* Request r is the only one received with its id on its port.
SoleRequest(r) ==
  \A q \in 1..Len(reqs) :
    (reqs[q].port = reqs[r].port /\ reqs[q].id = reqs[r].id) => q = r

\* C20. Started comes first: for every subscription request the handler
\* accepts, the first envelope it posts for that id is the "started"
\* result, also when the stream emits or ends while being subscribed.
C20_StartedComesFirst ==
  \A r \in 1..Len(reqs) :
    (reqs[r].pc = "sub" /\ SoleRequest(r) /\ PostedFor(r) # {}) =>
      s2c[reqs[r].port][Min(PostedFor(r))] = StartedEnvelope(reqs[r].id)

\* Envelope env ends a subscription on the wire: a stopped result or an
\* error.
IsTerminal(env) ==
  HasError(env) \/ (HasResult(env) /\ env.result.type = "stopped")

\* C21. Wire lifecycle of a subscription: for every subscription id the
\* handler posts at most one terminal envelope (a stopped result or an
\* error), and after the terminal envelope it posts no further envelope
\* with that id.
C21_WireLifecycle ==
  \A r \in 1..Len(reqs) :
    (reqs[r].pc = "sub" /\ SoleRequest(r)) =>
      \A i \in PostedFor(r) :
        IsTerminal(s2c[reqs[r].port][i]) => \A j \in PostedFor(r) : j <= i

\* C22. Only data results become stream items: the caller of a
\* subscription is handed an item for a data result and for nothing else;
\* the started result is not handed over as an item.
C22_OnlyDataResultsAreItems ==
  \A c \in 1..Len(ops) :
    ops[c].type = "subscription" =>
      \A i \in 1..Len(observed[c]) :
        observed[c][i].ev = "next" => observed[c][i].type = "data"

\* The stream of request r raised an error and its error envelope was
\* posted (the port was open then, and is still open).
FailedAndReported(r) ==
  /\ reqs[r].pc = "sub"
  /\ reqs[r].sdone
  /\ reqs[r].error # NoError
  /\ reqs[r].port \in connected

\* C23. Registry cleanup on stream error: once a stream has raised an
\* error and the handler has posted the error envelope for its id, the
\* registry of the connection holds no entry for that subscription,
\* without any further message from the client.
C23_RegistryCleanupOnError ==
  \A r \in 1..Len(reqs) : FailedAndReported(r) => ~Registered(r)

\* C24. The error observer precedes every error reply: every error
\* envelope the handler posts, for a failed request and for a stream error
\* alike, belongs to a request for which onError was invoked with that
\* error.
C24_OnErrorPrecedesErrorReply ==
  \A p \in Ports : \A env \in Posted(p) :
    HasError(env) =>
      \E r \in 1..Len(reqs) :
        /\ reqs[r].port = p
        /\ reqs[r].id = env.id
        /\ reqs[r].onErrorArg # NoError
        /\ reqs[r].onErrorArg.message = env.error.message
        /\ reqs[r].onErrorArg.code = env.error.data.code

\* C25. An envelope that lacks an id is ignored: when the handler receives
\* one, whatever its method and params (a subscription.stop included), it
\* posts no reply, starts no invocation (neither the context factory nor the
\* router runs, no pending invocation advances) and leaves the registry and
\* the handled stops unchanged.
C25_IdlessEnvelopeIgnored ==
  [][\A p \in Ports :
       (IsServerReceive(p) /\ "id" \notin DOMAIN Head(c2s[p])) =>
         UNCHANGED << s2c, reqs, subscriptions, stops >>]_vars

\* Every envelope the client posted was received; one registered a
\* subscription, the others lacked an id and changed nothing.
C25_Witness ==
  \E p \in connected :
    /\ peerPosts = MaxPeer
    /\ c2s[p] = << >>
    /\ Len(reqs) = 1
    /\ reqs[1].port = p
    /\ Registered(1)
    /\ stops[p] = {}
    /\ Len(s2c[p]) = 1

\* C26. No replies after disconnect: once the onDisconnect listener of a
\* port has run, the handler calls postMessage on that port no more, also
\* for the requests whose createContext or router call was in progress.
C26_NoSendAfterDisconnect ==
  \A p \in Ports : p \notin connected => p \notin postFailures

\* C27. Requests on one connection do not block each other: while an
\* invocation awaits the context factory or the router, the handler still
\* receives the next inbound envelope of the connection, and every awaiting
\* invocation can go on whatever the state of the others, so a request
\* received later can be answered before one received earlier.
C27_RequestsDoNotBlock ==
  Awaiting =>
    /\ \A p \in connected : c2s[p] # << >> => ENABLED ServerReceive(p)
    /\ \A r \in 1..Len(reqs) :
         /\ reqs[r].pc = "ctx" => ENABLED ContextResolves(r)
         /\ reqs[r].pc = "proc" =>
              /\ ENABLED ProcedureResolves(r, 1)
              /\ \A e \in ServerErrors : ENABLED ProcedureRejects(r, e, "returns")

\* The request received second on a port has its reply, the one received
\* first on the same port still awaits the context factory and has none.
C27_Witness ==
  /\ Len(reqs) = 2
  /\ reqs[1].port = reqs[2].port
  /\ reqs[1].port \in connected
  /\ reqs[1].id # reqs[2].id
  /\ reqs[1].pc = "ctx"
  /\ PostedFor(1) = {}
  /\ reqs[2].pc = "done"
  /\ PostedFor(2) # {}

\* The single reply request r is owed once its router call has ended: the
\* data result with the serialized router result, or the error envelope
\* with the failing path.
ReplyOwed(r) ==
  IF reqs[r].error = NoError
  THEN DataEnvelope(reqs[r].id, reqs[r].result)
  ELSE ErrorEnvelope(reqs[r].id, reqs[r].error, reqs[r].path)

\* C28. Exactly one reply per query/mutation request: on a connection that
\* stays open, a query or mutation request whose context was created and
\* whose router call has ended has exactly one envelope with its id sent,
\* the data result or the error envelope with the path; before the router
\* call ends none is sent.
C28_ExactlyOneReply ==
  \A r \in 1..Len(reqs) :
    (/\ reqs[r].method \in {"query", "mutation"}
     /\ reqs[r].port \in connected
     /\ SoleRequest(r)) =>
      /\ reqs[r].pc \in {"ctx", "proc"} => PostedFor(r) = {}
      /\ reqs[r].pc = "done" =>
           /\ Cardinality(PostedFor(r)) = 1
           /\ \A i \in PostedFor(r) : s2c[reqs[r].port][i] = ReplyOwed(r)

\* Envelope env is a subscription.stop.
IsStop(env) == "method" \in DOMAIN env /\ env.method = "subscription.stop"

\* The positions, among the envelopes the link has posted on the port of
\* call c, of those that carry the id of call c.
SentFor(c) ==
  { i \in 1..Len(c2s[ops[c].port]) : c2s[ops[c].port][i].id = ops[c].messageId }

\* C29. A stop always follows its subscription request: every
\* subscription.stop the link has posted on a port comes after a request
\* with the same id and method "subscription" posted on that port; no stop
\* carries the id of a query or mutation, and a query or mutation call posts
\* nothing besides its single request.
C29_StopFollowsItsRequest ==
  /\ \A p \in Ports : \A j \in 1..Len(c2s[p]) :
       IsStop(c2s[p][j]) =>
         \E i \in 1..(j - 1) :
           /\ ~IsStop(c2s[p][i])
           /\ c2s[p][i].id = c2s[p][j].id
           /\ c2s[p][i].method = "subscription"
  /\ \A c \in 1..Len(ops) :
       ops[c].type # "subscription" =>
         /\ Cardinality(SentFor(c)) <= 1
         /\ \A i \in SentFor(c) :
              c2s[ops[c].port][i] =
                RequestEnvelope(ops[c].messageId,
                                [type |-> ops[c].type, path |-> ops[c].path],
                                ops[c].input)

\* A query and a subscription were both cancelled by their callers: the
\* port carries the query's request and nothing else with its id, and the
\* subscription's stop after its request.
C29_Witness ==
  \E c, d \in 1..Len(ops) :
    /\ ops[c].type = "query"
    /\ c \in unsubscribed
    /\ Cardinality(SentFor(c)) = 1
    /\ ops[d].type = "subscription"
    /\ d \in unsubscribed
    /\ \E j \in SentFor(d) : IsStop(c2s[ops[d].port][j])

\* This step is port p closing.
IsDisconnect(p) == p \in connected /\ p \notin connected'

\* C30. The registry is per connection: a subscription.stop handled on one
\* port, or the disconnect of one port, leaves the registry and the
\* requests of every other port as they were, also when the same id is
\* registered on both; a newly accepted connection starts with an empty
\* registry.
C30_RegistryPerConnection ==
  [][\A p \in Ports :
       /\ ((IsServerReceive(p) /\ IsStop(Head(c2s[p]))) \/ IsDisconnect(p)) =>
            \A q \in Ports \ {p} :
              /\ subscriptions'[q] = subscriptions[q]
              /\ \A r \in 1..Len(reqs) : reqs[r].port = q => reqs'[r] = reqs[r]
       /\ (p \notin connected /\ p \in connected') =>
            subscriptions'[p] = << >>]_vars

\* Two open connections registered a subscription under the same id; the
\* stop was handled on one of them, whose stream is unsubscribed, and the
\* other's is still registered and running.
C30_Witness ==
  \E r1, r2 \in 1..Len(reqs) :
    /\ reqs[r1].port # reqs[r2].port
    /\ reqs[r1].port \in connected
    /\ reqs[r2].port \in connected
    /\ reqs[r1].id = reqs[r2].id
    /\ reqs[r1].id \in stops[reqs[r1].port]
    /\ reqs[r1].sunsub
    /\ ~Registered(r1)
    /\ Registered(r2)
    /\ ~reqs[r2].sunsub

\* C31. Single shared listener: the link has at most one message listener
\* registered on a port, however many calls are in flight.
C31_SingleSharedListener ==
  \A p \in Ports : Cardinality(ListenersOn(p)) <= 1

\* Call c has ended: its observable is done (a query or mutation got its
\* response, a subscription received stopped or an error) or its caller
\* unsubscribed.
Ended(c) == c \in isDone \/ c \in unsubscribed

\* C32. No listener leak on the client: in every reachable state the
\* link's listeners on a port are exactly those of the calls on that port
\* that have not ended.
C32_NoListenerLeak ==
  \A p \in Ports :
    ListenersOn(p) = { c \in 1..Len(ops) : ops[c].port = p /\ ~Ended(c) }

\* In this step the link posts the subscription.stop of call c on its port.
PostsStop(c) ==
  c2s'[ops[c].port] = Append(c2s[ops[c].port], StopEnvelope(ops[c].messageId))

\* C33. The subscription teardown posts subscription.stop with the
\* subscription's id before it removes the listener: whenever the listener
\* of a subscription goes, whenever a subscription ends because stopped or
\* an error arrived, and whenever the teardown runs on an open port, the
\* stop is posted in that step; a stop is posted only by the one run of the
\* teardown, so at most once per subscription.
C33_TeardownPostsStop ==
  [][\A c \in 1..Len(ops) :
       ops[c].type = "subscription" =>
         /\ (c \in listeners /\ c \notin listeners') => PostsStop(c)
         /\ (c \notin isDone /\ c \in isDone') => PostsStop(c)
         /\ (c \notin unsubscribed /\ c \in unsubscribed'
               /\ ops[c].port \in connected) => PostsStop(c)
         /\ StopsInFlight(c)' > StopsInFlight(c) =>
              /\ c \notin unsubscribed
              /\ c \in unsubscribed'
              /\ StopsInFlight(c)' = 1]_vars

\* A subscription ended because the server's stopped or error arrived; its
\* listener is gone and its one stop is on the port.
C33_Witness ==
  \E c \in 1..Len(ops) :
    /\ ops[c].type = "subscription"
    /\ c \in isDone
    /\ Last(observed[c]).ev \in {"complete", "error"}
    /\ c \notin listeners
    /\ StopsInFlight(c) = 1
    /\ Last(c2s[ops[c].port]) = StopEnvelope(ops[c].messageId)

\* This step is wxtLink(options) returning a link.
IsWxtLink == link = NoLink /\ link'.by = "wxtLink"

\* C34. A link created by wxtLink uses one port for all its calls: without
\* options.port, wxtLink connects exactly one port at link creation, named
\* options.portName or "wxt-trpc", and stores it in options.port; with
\* options.port it connects none; no later step connects a port, and every
\* call uses the port of options.port.
C34_WxtLinkOnePort ==
  [][/\ IsWxtLink =>
          /\ optionsPort'
          /\ IF optionsPort
             THEN connects' = << >> /\ connected' = connected
             ELSE /\ connects' = << IF link'.portName = NoName
                                    THEN "wxt-trpc" ELSE link'.portName >>
                  /\ connected' = {LinkPort'}
          /\ ops' = << >>
     /\ link.by = "wxtLink" =>
          /\ connects' = connects
          /\ optionsPort'
          /\ \A c \in 1..Len(ops') : ops'[c].port = LinkPort']_vars

\* wxtLink was given neither a port nor a name; two calls went through the
\* one port it connected as "wxt-trpc".
C34_Witness ==
  /\ link.by = "wxtLink"
  /\ link.portName = NoName
  /\ connects = << "wxt-trpc" >>
  /\ Len(ops) = 2
  /\ \A c \in 1..2 : ops[c].port = 1 /\ ~ops[c].threw

\* Request r is a subscription request whose router call resolved a value
\* that is no observable, on a port that is open.
PlainSubscription(r) ==
  /\ reqs[r].method = "subscription"
  /\ reqs[r].pc = "done"
  /\ reqs[r].error = NoError
  /\ reqs[r].port \in connected

\* C35. A subscription request whose router result is no observable is
\* answered like a query: the handler registers nothing and sends one data
\* result with that id, neither started nor stopped; the link hands that
\* result to the caller as one item and does not complete the stream.
C35_PlainResultForSubscription ==
  \A c \in 1..Len(ops) : \A r \in ReqsOf(c) :
    PlainSubscription(r) =>
      /\ reqs[r].id \notin DOMAIN subscriptions[reqs[r].port]
      /\ \A i \in PostedFor(r) :
           s2c[reqs[r].port][i] = DataEnvelope(reqs[r].id, reqs[r].result)
      /\ \A i \in 1..Len(Delivered(c)) :
           /\ Delivered(c)[i].ev = "next"
           /\ Delivered(c)[i].type = "data"
           /\ Delivered(c)[i].data = reqs[r].result
      /\ Cardinality(PostedFor(r)) + Len(Delivered(c)) <= 1
      /\ c \notin unsubscribed => Cardinality(PostedFor(r)) + Len(Delivered(c)) = 1
      /\ c \notin isDone

\* The router resolved a plain value for a subscription; the caller was
\* handed it as the one item and the call is still open.
C35_Witness ==
  \E c \in 1..Len(ops) : \E r \in ReqsOf(c) :
    /\ PlainSubscription(r)
    /\ Items(c) = << reqs[r].result >>
    /\ Len(Delivered(c)) = 1
    /\ c \in listeners
    /\ c \notin isDone
    /\ s2c[ops[c].port] = << >>

\* C36. In the states after wxtLink called getBrowserAPI(): it threw
\* Error("Browser API not available") exactly when browser has no
\* runtime.id and chrome is not defined; otherwise it returned the browser
\* global when browser.runtime.id is set and the chrome global if not; and
\* whenever isExtensionEnvironment() is true it returned, without throwing,
\* an API object whose runtime.id is defined.
C36_GetBrowserAPI ==
  link.by \in {"Error", "TypeError", "wxtLink"} =>
    /\ link.by = "Error" <=>
         (global.browser.runtime # "id" /\ global.chrome.global = "none")
    /\ link.by # "Error" =>
         link.api = IF global.browser.runtime = "id"
                    THEN global.browser ELSE global.chrome
    /\ isExtensionEnvironment(global) =>
         /\ link.by # "Error"
         /\ link.api.global # "none"
         /\ link.api.runtime = "id"

\* getBrowserAPI() returned the chrome global to wxtLink: browser is
\* defined but has no runtime.id, chrome has one.
C36_Witness ==
  /\ link.by = "wxtLink"
  /\ global.browser.global = "browser"
  /\ global.browser.runtime = "noid"
  /\ global.chrome.runtime = "id"
  /\ isExtensionEnvironment(global)
  /\ link.api = global.chrome

\* This step is initI18n applying its default language.
IsInit == i18n.pc = "got" /\ i18n'.pc = "initialised"

\* C37. The language applied to i18n is always a supported locale ("en" or
\* "ja"): initI18n applies the stored language when it is a supported
\* locale and getBrowserLanguage() otherwise, getBrowserLanguage() returns a
\* supported locale, and the storage listener has called changeLanguage
\* only with supported locales.
C37_LanguageIsSupported ==
  [][/\ i18n'.language \in {NoLanguage, Str_en, Str_ja}
     /\ i18n'.pc = "initialised" => i18n'.language \in {Str_en, Str_ja}
     /\ IsInit =>
          i18n'.language =
            IF /\ i18n.savedLanguage.type = "string"
               /\ i18n.savedLanguage.str \in {Str_en, Str_ja}
            THEN i18n.savedLanguage.str
            ELSE getBrowserLanguage(i18n.uiLanguage)
     /\ getBrowserLanguage(i18n.uiLanguage) \in {Str_en, Str_ja}
     /\ \A k \in 1..Len(i18n'.changeLanguage) :
          i18n'.changeLanguage[k] \in {Str_en, Str_ja}]_vars

\* The stored language was "fr" and the UI language "ja-JP": initI18n
\* applied "ja"; then storage changed to "en" and to "fr", and the listener
\* called changeLanguage once, with "en".
C37_Witness ==
  /\ i18n.pc = "initialised"
  /\ i18n.savedLanguage = StringValue(<< "f", "r" >>)
  /\ i18n.uiLanguage = << "j", "a", "-", "J", "P" >>
  /\ i18n.changes = 2
  /\ i18n.stored = StringValue(<< "f", "r" >>)
  /\ i18n.changeLanguage = << Str_en >>
  /\ i18n.language = Str_en

====
